---- MODULE Spec2Model ----
(***************************************************************************)
(* Model of src/src/Proxy.js: the ProxyFactory (lazy proxies) and the      *)
(* ObjectManager (identity map, entity construction, toArray).             *)
(*                                                                         *)
(* JavaScript objects live in `heap` (a sequence; a reference is an index, *)
(* 0 is "no object").  Property values and ids are drawn from Vals; the    *)
(* value "undefined" is JavaScript's undefined (also what a missing key of *)
(* rawData reads as).                                                      *)
(***************************************************************************)
EXTENDS Naturals, Sequences, FiniteSets, TLC

\* ---------------------------------------------------------------- bounds
\* heap cells the model may allocate (entities, proxies, delegates)
MaxObjects == 3

\* ---------------------------------------------------------------- values
Undefined == "undefined"
\* the ids a call carries (undefined: no id) and the values a non-id
\* property is loaded with or assigned
Vals == {Undefined, "a"}
PropVals == {Undefined, "a"}
\* ids of mixed types: the number 1 (written "#1") and the strings '1', '01'
Numbers == {"#1"}
MixedIds == {"#1", "1", "01"}
NoRef == 0
NoClass == "none"

\* ------------------------------------------------- collaborators' schemas
\* Two entity classes, each prepared with prepareEntity under its own name.
Classes == {"User", "Post"}
PropNames == {"id", "name"}

\* transform / reverseTransform functions a Property Definition may carry
ApplyFn(kind, x) ==
    CASE kind = "ident" -> x
      [] kind = "swap"  -> IF x = Undefined THEN "a" ELSE Undefined

\* the id property: taken from rawData.id unchanged, readable, read-only
IdDef ==
    [transform |-> "ident", reverseTransform |-> "ident",
     readable |-> TRUE, writable |-> FALSE, persistable |-> TRUE]

\* the Property Definitions the schema of User may give to `name`:
\* an ordinary property, a write-only one, a read-only transient one, and a
\* definition that has no transform
NameDefs ==
    { [transform |-> "swap", reverseTransform |-> "swap",
       readable |-> TRUE, writable |-> TRUE, persistable |-> TRUE],
      [transform |-> "ident", reverseTransform |-> "ident",
       readable |-> FALSE, writable |-> TRUE, persistable |-> TRUE],
      [transform |-> "swap", reverseTransform |-> "swap",
       readable |-> TRUE, writable |-> FALSE, persistable |-> FALSE],
      [reverseTransform |-> "ident",
       readable |-> TRUE, writable |-> TRUE, persistable |-> TRUE] }

VARIABLES
    nameDef,        \* the Property Definition of User.name (fixed by Init)
    heap,           \* the objects created so far
    objectMap,      \* ObjectManager's objectMap: key -> array of references
    proxyClasses,   \* ProxyFactory's proxyClasses: key -> class it was built for
    ret             \* the last call: its arguments and its outcome

vars == <<nameDef, heap, objectMap, proxyClasses, ret>>

\* className.prototype after prepareEntity(identifier, className, schemaClassName)
prepareEntity(identifier, className, schemaObject) ==
    [name |-> identifier, schema |-> schemaObject]

SchemaOf(c, nd) ==
    IF c = "User" THEN [id |-> IdDef, name |-> nd]
                  ELSE [id |-> IdDef]

Prototype(c) == prepareEntity(c, c, SchemaOf(c, nameDef))

\* entity.$schema / entityClass.prototype.$schema
Schema(c) == Prototype(c).schema

\* own properties of a constructor function: prepareEntity defines $name and
\* $schema on className.prototype, never on className itself
ConstructorOwnProps(c) == {"prototype", "name", "length"}

\* entityClass.$name: a property lookup on the constructor function, whose
\* prototype chain (Function.prototype) does not pass through .prototype
DollarName(entityClass) ==
    IF "$name" \in ConstructorOwnProps(entityClass)
        THEN Prototype(entityClass).name
        ELSE Undefined

\* the keys objectMap and proxyClasses can be indexed with
\* (for proxyClasses the constant suffix 'Proxy' is left out)
MapKeys == {Undefined} \cup Classes


\* ---------------------------------------------------------------- objects
NoProps == [n \in PropNames |-> Undefined]

\* var Proxy = function(id) {...}: a new proxy of the proxy class built for
\* `builder`; delegate (this.object) unset, id captured in the closure.
\* `asked` is history, not a field of the object: the entity class the proxy
\* was requested for (createProxy's entityClass argument)
NewProxy(builder, entityClass, id) ==
    [kind |-> "proxy", cls |-> builder, asked |-> entityClass, id |-> id,
     object |-> NoRef, raw |-> NoProps, values |-> NoProps, dirty |-> FALSE]

\* Object.create(entityClass.prototype, {$values: {}, $raw: {}, $dirty: false})
BlankEntity(entityClass) ==
    [kind |-> "entity", cls |-> entityClass, asked |-> entityClass,
     id |-> Undefined, object |-> NoRef,
     raw |-> NoProps, values |-> NoProps, dirty |-> FALSE]

\* ------------------------------------------------------- property access
\* the properties object o defines (accessors); the model assigns to no other
\* name, so no object ever has a plain own property
Accessors(o) == DOMAIN Schema(o.cls)

\* entity[name] on a real entity: the getter of defineProperty; undefined when
\* the accessor has no getter or the entity has no such property
EntityGet(o, name) ==
    IF name \in DOMAIN Schema(o.cls) /\ Schema(o.cls)[name].readable
        THEN o.values[name]
        ELSE Undefined

\* (variant: load does not see the delegate that create has set)
loadUnbound(o) == "Entity cannot be loaded"

\* Proxy.load
load(o) == IF o.object = NoRef THEN "Entity cannot be loaded" ELSE "none"

\* object[name] for any object: [err, val]
GetProp(h, r, name) ==
    LET o == h[r] IN
    IF o.kind = "entity" THEN [err |-> "none", val |-> EntityGet(o, name)]
    ELSE IF name = "id" THEN [err |-> "none", val |-> o.id]
    ELSE IF name \in DOMAIN Schema(o.cls)
        THEN IF load(o) # "none"
                THEN [err |-> load(o), val |-> Undefined]
                ELSE [err |-> "none", val |-> EntityGet(h[o.object], name)]
        ELSE [err |-> "none", val |-> Undefined]

\* (variant: the setter stores the value and leaves $dirty alone)
EntitySetNotDirty(h, r, name, value) ==
    LET o == h[r] IN
    IF name \in DOMAIN Schema(o.cls) /\ Schema(o.cls)[name].writable
        THEN [err |-> "none",
              heap |-> [h EXCEPT ![r].values[name] =
                                   ApplyFn(Schema(o.cls)[name].transform, value)]]
        ELSE [err |-> "TypeError", heap |-> h]

\* entity[name] = value on a real entity h[r], name one of its accessors: the
\* setter of defineProperty; an accessor without a setter rejects the
\* assignment (TypeError in strict code) and changes nothing
EntitySet(h, r, name, value) ==
    LET o == h[r] IN
    IF name \in DOMAIN Schema(o.cls) /\ Schema(o.cls)[name].writable
        THEN [err |-> "none",
              heap |-> [h EXCEPT ![r].dirty = TRUE,
                                 ![r].values[name] =
                                   ApplyFn(Schema(o.cls)[name].transform, value)]]
        ELSE [err |-> "TypeError", heap |-> h]

\* object[name] = value for any object, name one of its accessors: [err, heap]
SetProp(h, r, name, value) ==
    LET o == h[r] IN
    IF o.kind = "entity" THEN EntitySet(h, r, name, value)
    ELSE IF name = "id" THEN [err |-> "TypeError", heap |-> h]
    ELSE IF load(o) # "none" THEN [err |-> load(o), heap |-> h]
    ELSE EntitySet(h, o.object, name, value)

\* ----------------------------------------------------------- identity map
\* typeof v === 'number'
IsNumber(v) == v \in Numbers

\* ToNumber(string), the conversion == applies to a string compared with a
\* number: '1' and '01' both read as 1, any other string of the model as NaN
ToNumber(v) == IF v \in {"1", "01"} THEN "#1" ELSE "NaN"

\* map[i].id == id: identity between values of one type (and for undefined,
\* which equals only itself here); a number and a string are compared as
\* numbers
LooseEq(x, y) ==
    IF Undefined \in {x, y} \/ IsNumber(x) = IsNumber(y) THEN x = y
    ELSE IF IsNumber(x) THEN x = ToNumber(y)
    ELSE ToNumber(x) = y

RECURSIVE FirstMatch(_, _, _, _)
FirstMatch(h, map, id, i) ==
    IF i > Len(map) THEN NoRef
    ELSE IF LooseEq(GetProp(h, map[i], "id").val, id) THEN map[i]
    ELSE FirstMatch(h, map, id, i + 1)

getFromObjectMap(h, om, entityClass, id) ==
    IF id = Undefined THEN NoRef
    ELSE FirstMatch(h, om[DollarName(entityClass)], id, 1)

InSeq(x, s) == \E i \in 1..Len(s) : s[i] = x

addToObjectMap(om, entityClass, r) ==
    LET name == DollarName(entityClass) IN
    IF InSeq(r, om[name]) THEN om
    ELSE [om EXCEPT ![name] = Append(@, r)]

\* ProxyFactory.getProxyClass: the cache after the call
getProxyClass(pcs, entityClass) ==
    LET key == DollarName(entityClass) IN
    IF pcs[key] = NoClass THEN [pcs EXCEPT ![key] = entityClass] ELSE pcs

\* existing instanceof proxyClass, the proxy class cached under entityClass's key
InstanceOfProxy(o, pcs, entityClass) ==
    o.kind = "proxy" /\ o.cls = pcs[DollarName(entityClass)]

\* ------------------------------------------------------- constructor hook
\* entityClass.constructor: a constructor function has no own `constructor`
\* (prepareEntity defines none), it inherits Function.prototype.constructor
ConstructorOf(entityClass) == "Function"

\* f.call(x), the object entityClass's constructor body runs on: x when f is
\* entityClass itself; Function.call(x) only builds an empty function
HookTarget(f, entityClass, x) == IF f = entityClass THEN x ELSE NoRef

\* ------------------------------------------------------ loading of values
HasTransform(property) == "transform" \in DOMAIN property

\* (variant: $raw is stored, $values is not recomputed)
loadPropertyValueRawOnly(entity, name, property, data) ==
    [entity EXCEPT !.raw[name] = data[name]]

loadPropertyValue(entity, name, property, data) ==
    [entity EXCEPT !.raw[name] = data[name],
                   !.values[name] = ApplyFn(property.transform, data[name])]

RECURSIVE LoadAll(_, _, _, _)
LoadAll(entity, schema, names, data) ==
    IF names = {} THEN entity
    ELSE LET i == CHOOSE n \in names : TRUE IN
         LoadAll(loadPropertyValue(entity, i, schema[i], data),
                 schema, names \ {i}, data)

\* (variant: the existing entity is returned as it is, first write wins)
updateSkipped(existing, data) == existing

\* ObjectManager.update on a real entity
update(existing, data) ==
    LoadAll(existing, Schema(existing.cls), DOMAIN Schema(existing.cls), data)

\* the fresh entity create builds: defineProperty for every schema property
BuildEntity(entityClass, data) ==
    LoadAll(BlankEntity(entityClass), Schema(entityClass),
            DOMAIN Schema(entityClass), data)

\* (variant: every schema property is written, persistable or not)
toArrayAllKeys(h, r) ==
    LET schema == Schema(h[r].cls)
        keys == DOMAIN schema
    IN IF \E i \in keys : GetProp(h, r, i).err # "none"
          THEN [err |-> "Entity cannot be loaded",
                out |-> [i \in {} |-> Undefined]]
          ELSE [err |-> "none",
                out |-> [i \in keys |->
                           ApplyFn(schema[i].reverseTransform,
                                   GetProp(h, r, i).val)]]

\* ObjectManager.toArray: [err, out]
toArray(h, r) ==
    LET schema == Schema(h[r].cls)
        keys == {i \in DOMAIN schema : schema[i].persistable}
    IN IF \E i \in keys : GetProp(h, r, i).err # "none"
          THEN [err |-> (CHOOSE e \in {GetProp(h, r, i).err : i \in keys} :
                            e # "none"),
                out |-> [i \in {} |-> Undefined]]
          ELSE [err |-> "none",
                out |-> [i \in keys |->
                           ApplyFn(schema[i].reverseTransform,
                                   GetProp(h, r, i).val)]]


\* ------------------------------------------------------------ call record
NoOut == [i \in {} |-> Undefined]

\* the last call: its arguments (entity class, id, rawData, object acted on,
\* property name, value assigned) and its outcome (object returned, error
\* thrown, value read, toArray's record, getAll's collection, whether a new
\* object was registered, the object the constructor hook ran on)
NoCall ==
    [op |-> "none", cls |-> NoClass, id |-> Undefined, data |-> NoProps,
     ref |-> NoRef, name |-> "none", val |-> Undefined,
     result |-> NoRef, err |-> "none", out |-> NoOut, all |-> <<>>,
     isNew |-> FALSE, hookOn |-> NoRef]

\* `ret` records one call of a behaviour, the one under examination, and the
\* behaviour ends with it; the calls before it are made with seen = FALSE and
\* leave no record.  Every call is so examined from every reachable state.
Calling == ret = NoCall
Record(seen, call) == IF seen THEN call ELSE NoCall

\* rawData objects a caller passes for class c (a missing key reads undefined)
DataFor(c) ==
    {d \in [PropNames -> Vals] :
        \A n \in PropNames \ {"id"} :
            IF n \in DOMAIN Schema(c) THEN d[n] \in PropVals
                                      ELSE d[n] = Undefined}

\* rawData objects carrying an id of MixedIds
MixedDataFor(c) ==
    {d \in [PropNames -> MixedIds \cup PropVals] :
        /\ d["id"] \in MixedIds
        /\ \A n \in PropNames \ {"id"} :
              d[n] = IF n \in DOMAIN Schema(c) THEN "a" ELSE Undefined}

\* the objects a caller can hold: those the identity map hands out
Tracked(r) == \E k \in MapKeys : InSeq(r, objectMap[k])

\* object[name] = value lands on an accessor property (of the object and, for
\* a resolved proxy, of its delegate)
Assignable(h, r, name) ==
    /\ name \in Accessors(h[r])
    /\ (h[r].kind = "proxy" /\ name # "id" /\ h[r].object # NoRef)
          => name \in Accessors(h[h[r].object])

\* ------------------------------------------------------------------ state
Init ==
    /\ nameDef \in NameDefs
    /\ heap = <<>>
    /\ objectMap = [k \in MapKeys |-> <<>>]
    /\ proxyClasses = [k \in MapKeys |-> NoClass]
    /\ ret = NoCall

\* (variant: the entity is put in the object map before its properties are
\* defined, so a failing defineProperty leaves it registered)
CreateRegisteredFirst(entityClass, data, seen) ==
    LET call == [NoCall EXCEPT !.op = "create", !.cls = entityClass,
                               !.id = data["id"], !.data = data]
        schema == Schema(entityClass)
        entity == BuildEntity(entityClass, data)
        existing == getFromObjectMap(heap, objectMap, entityClass, data["id"])
        pcs == getProxyClass(proxyClasses, entityClass)
        fresh == Len(heap) + 1
    IN
    /\ Calling
    /\ UNCHANGED nameDef
    /\ IF \E i \in DOMAIN schema : ~HasTransform(schema[i])
         THEN /\ Len(heap) < MaxObjects
              /\ heap' = Append(heap, BlankEntity(entityClass))
              /\ objectMap' = addToObjectMap(objectMap, entityClass, fresh)
              /\ ret' = Record(seen, [call EXCEPT !.err = "transform is mandatory"])
              /\ UNCHANGED proxyClasses
       ELSE IF existing # NoRef
         THEN IF ~InstanceOfProxy(heap[existing], pcs, entityClass)
                THEN /\ heap' = [heap EXCEPT ![existing] = update(@, data)]
                     /\ proxyClasses' = pcs
                     /\ ret' = Record(seen, [call EXCEPT !.result = existing])
                     /\ UNCHANGED objectMap
                ELSE /\ Len(heap) < MaxObjects
                     /\ heap' = Append([heap EXCEPT ![existing].object = fresh],
                                       entity)
                     /\ proxyClasses' = pcs
                     /\ ret' = Record(seen,
                           [call EXCEPT !.result = existing,
                              !.hookOn = HookTarget(ConstructorOf(entityClass),
                                                    entityClass, existing)])
                     /\ UNCHANGED objectMap
       ELSE /\ Len(heap) < MaxObjects
            /\ heap' = Append(heap, entity)
            /\ objectMap' = addToObjectMap(objectMap, entityClass, fresh)
            /\ ret' = Record(seen,
                  [call EXCEPT !.result = fresh, !.isNew = TRUE,
                     !.hookOn = HookTarget(ConstructorOf(entityClass),
                                           entityClass, fresh)])
            /\ UNCHANGED proxyClasses

\* ObjectManager.create(entityClass, data)
Create(entityClass, data, seen) ==
    LET call == [NoCall EXCEPT !.op = "create", !.cls = entityClass,
                               !.id = data["id"], !.data = data]
        schema == Schema(entityClass)
        entity == BuildEntity(entityClass, data)
        existing == getFromObjectMap(heap, objectMap, entityClass, data["id"])
        pcs == getProxyClass(proxyClasses, entityClass)
        fresh == Len(heap) + 1
    IN
    /\ Calling
    /\ UNCHANGED nameDef
    /\ IF \E i \in DOMAIN schema : ~HasTransform(schema[i])
         THEN /\ ret' = Record(seen, [call EXCEPT !.err = "transform is mandatory"])
              /\ UNCHANGED <<heap, objectMap, proxyClasses>>
       ELSE IF existing # NoRef
         THEN IF ~InstanceOfProxy(heap[existing], pcs, entityClass)
                THEN /\ heap' = [heap EXCEPT ![existing] = update(@, data)]
                     /\ proxyClasses' = pcs
                     /\ ret' = Record(seen, [call EXCEPT !.result = existing])
                     /\ UNCHANGED objectMap
                ELSE /\ Len(heap) < MaxObjects
                     /\ heap' = Append([heap EXCEPT ![existing].object = fresh],
                                       entity)
                     /\ proxyClasses' = pcs
                     /\ ret' = Record(seen,
                           [call EXCEPT !.result = existing,
                              !.hookOn = HookTarget(ConstructorOf(entityClass),
                                                    entityClass, existing)])
                     /\ UNCHANGED objectMap
       ELSE /\ Len(heap) < MaxObjects
            /\ heap' = Append(heap, entity)
            /\ objectMap' = addToObjectMap(objectMap, entityClass, fresh)
            /\ ret' = Record(seen,
                  [call EXCEPT !.result = fresh, !.isNew = TRUE,
                     !.hookOn = HookTarget(ConstructorOf(entityClass),
                                           entityClass, fresh)])
            /\ UNCHANGED proxyClasses

\* ObjectManager.get(entityClass, id)
Get(entityClass, id) ==
    LET call == [NoCall EXCEPT !.op = "get", !.cls = entityClass, !.id = id]
        entity == getFromObjectMap(heap, objectMap, entityClass, id)
    IN
    /\ Calling
    /\ ret' = IF entity = NoRef THEN [call EXCEPT !.err = "not loaded"]
                                ELSE [call EXCEPT !.result = entity]
    /\ UNCHANGED <<nameDef, heap, objectMap, proxyClasses>>

\* ObjectManager.getAll(entityClass)
GetAll(entityClass) ==
    /\ Calling
    /\ ret' = [NoCall EXCEPT !.op = "getAll", !.cls = entityClass,
                             !.all = objectMap[DollarName(entityClass)]]
    /\ UNCHANGED <<nameDef, heap, objectMap, proxyClasses>>

\* ObjectManager.getReference(entityClass, id), with ObjectManager.createProxy
\* and ProxyFactory.createProxy when nothing is tracked
GetReference(entityClass, id, seen) ==
    LET call == [NoCall EXCEPT !.op = "getReference", !.cls = entityClass,
                               !.id = id]
        reference == getFromObjectMap(heap, objectMap, entityClass, id)
        pcs == getProxyClass(proxyClasses, entityClass)
        fresh == Len(heap) + 1
    IN
    /\ Calling
    /\ UNCHANGED nameDef
    /\ IF reference # NoRef
         THEN /\ ret' = Record(seen, [call EXCEPT !.result = reference])
              /\ UNCHANGED <<heap, objectMap, proxyClasses>>
         ELSE /\ Len(heap) < MaxObjects
              /\ proxyClasses' = pcs
              /\ heap' = Append(heap,
                                NewProxy(pcs[DollarName(entityClass)],
                                         entityClass, id))
              /\ objectMap' = addToObjectMap(objectMap, entityClass, fresh)
              /\ ret' = Record(seen,
                    [call EXCEPT !.result = fresh, !.isNew = TRUE,
                       !.hookOn = HookTarget(pcs[DollarName(entityClass)],
                                             pcs[DollarName(entityClass)],
                                             fresh)])

\* ObjectManager.toArray(entity)
ToArray(r) ==
    /\ Calling
    /\ Tracked(r)
    /\ ret' = [NoCall EXCEPT !.op = "toArray", !.ref = r,
                             !.err = toArray(heap, r).err,
                             !.out = toArray(heap, r).out]
    /\ UNCHANGED <<nameDef, heap, objectMap, proxyClasses>>

\* ObjectManager.update(existing, data) called by a collaborator; a proxy has
\* no $raw, so loadPropertyValue fails on it with a TypeError
Update(r, data, seen) ==
    LET call == [NoCall EXCEPT !.op = "update", !.ref = r, !.data = data] IN
    /\ Calling
    /\ Tracked(r)
    /\ IF heap[r].kind = "proxy"
         THEN /\ ret' = Record(seen, [call EXCEPT !.err = "TypeError"])
              /\ UNCHANGED heap
         ELSE /\ heap' = [heap EXCEPT ![r] = update(@, data)]
              /\ ret' = Record(seen, call)
    /\ UNCHANGED <<nameDef, objectMap, proxyClasses>>

\* a collaborator reads object[name]
ReadProperty(r, name) ==
    /\ Calling
    /\ Tracked(r)
    /\ ret' = [NoCall EXCEPT !.op = "read", !.ref = r, !.name = name,
                             !.err = GetProp(heap, r, name).err,
                             !.val = GetProp(heap, r, name).val]
    /\ UNCHANGED <<nameDef, heap, objectMap, proxyClasses>>

\* a collaborator assigns object[name] = value
WriteProperty(r, name, value, seen) ==
    /\ Calling
    /\ Tracked(r)
    /\ Assignable(heap, r, name)
    /\ heap' = SetProp(heap, r, name, value).heap
    /\ ret' = Record(seen, [NoCall EXCEPT !.op = "write", !.ref = r, !.name = name,
                             !.val = value,
                             !.err = SetProp(heap, r, name, value).err])
    /\ UNCHANGED <<nameDef, objectMap, proxyClasses>>

Next ==
    \/ \E c \in Classes : \E d \in DataFor(c) : \E seen \in BOOLEAN :
           Create(c, d, seen)
    \/ \E c \in Classes : \E id \in Vals : Get(c, id)
    \/ \E c \in Classes : GetAll(c)
    \/ \E c \in Classes : \E id \in Vals : \E seen \in BOOLEAN :
           GetReference(c, id, seen)
    \/ \E r \in 1..Len(heap) : ToArray(r)
    \/ \E r \in 1..Len(heap) : \E d \in DataFor(heap[r].cls) :
           \E seen \in BOOLEAN : Update(r, d, seen)
    \/ \E r \in 1..Len(heap) : \E n \in PropNames : ReadProperty(r, n)
    \/ \E r \in 1..Len(heap) : \E n \in PropNames : \E v \in PropVals :
           \E seen \in BOOLEAN : WriteProperty(r, n, v, seen)

Spec == Init /\ [][Next]_vars


\* create and getReference calls only (and get, to look at the map), ids of
\* a single type
NextIdentity ==
    \/ \E c \in Classes : \E d \in DataFor(c) : \E seen \in BOOLEAN :
           Create(c, d, seen)
    \/ \E c \in Classes : \E id \in Vals : \E seen \in BOOLEAN :
           GetReference(c, id, seen)
    \/ \E c \in Classes : \E id \in Vals : Get(c, id)

SpecIdentity == Init /\ [][NextIdentity]_vars

\* create, getReference, get, getAll and toArray calls with ids of mixed
\* types (no update call, no property write)
NextMixedIds ==
    \/ \E c \in Classes : \E d \in MixedDataFor(c) : \E seen \in BOOLEAN :
           Create(c, d, seen)
    \/ \E c \in Classes : \E id \in MixedIds : \E seen \in BOOLEAN :
           GetReference(c, id, seen)
    \/ \E c \in Classes : \E id \in MixedIds : Get(c, id)
    \/ \E c \in Classes : GetAll(c)
    \/ \E r \in 1..Len(heap) : ToArray(r)

SpecMixedIds == Init /\ [][NextMixedIds]_vars

\* ================================================================ claims
Refs == 1..Len(heap)
NotLoadable == "Entity cannot be loaded"
NotLoaded == "not loaded"

\* the id a collaborator reads on object r
IdOf(h, r) == GetProp(h, r, "id").val

\* the objects tracked for (entity type c, id K): registered in the map
\* consulted for c, created for c, and carrying id K
TrackedFor(h, om, c, K) ==
    {r \in 1..Len(h) : /\ InSeq(r, om[DollarName(c)])
                       /\ h[r].asked = c
                       /\ IdOf(h, r) = K}

\* some Property Definition of c's schema has no transform
SchemaLacksTransform(c) ==
    \E i \in DOMAIN Schema(c) : ~HasTransform(Schema(c)[i])

DefinedIds == (Vals \cup MixedIds) \ {Undefined}

\* ---------------------------------------------------------------- C1
\* C1 (as claimed): for every entity type T and every id value K a call may
\* carry, rawData without id (K undefined) included, the identity map holds
\* at most one tracked object for (T, K).
C1_IdentityUniqueness ==
    \A c \in Classes : \A K \in Vals \cup MixedIds :
        Cardinality(TrackedFor(heap, objectMap, c, K)) <= 1

\* C1 for ids of a single type: with every id a string (SpecIdentity), after
\* any sequence of create and getReference calls the identity map holds at
\* most one tracked object for (T, K), K other than undefined.
C1_UniquePerDefinedId ==
    \A c \in Classes : \A K \in DefinedIds :
        Cardinality(TrackedFor(heap, objectMap, c, K)) <= 1

\* a create for an id that is already tracked, next to another tracked object
C1_Witness ==
    /\ ret.op = "create" /\ ret.err = "none" /\ ~ret.isNew
    /\ ret.id \in DefinedIds
    /\ TrackedFor(heap, objectMap, ret.cls, ret.id) = {ret.result}
    /\ Len(objectMap[DollarName(ret.cls)]) >= 2

\* ---------------------------------------------------------------- C2
\* C2: if getReference(T, K) returned proxy P while K was untracked, a later
\* create(T, {id: K, ...}) returns P, registers no new object, and right
\* after it every readable non-id property of T read on P yields
\* transform(data[name]).
C2_ReferenceStability ==
    [][ \A P \in Refs :
          ( /\ ret'.op = "create" /\ ret'.id \in DefinedIds
            /\ ~SchemaLacksTransform(ret'.cls)
            /\ heap[P].kind = "proxy" /\ heap[P].asked = ret'.cls
            /\ Tracked(P) /\ heap[P].id = ret'.id )
          => ( /\ ret'.result = P
               /\ objectMap' = objectMap
               /\ \A n \in (DOMAIN Schema(ret'.cls)) \ {"id"} :
                     Schema(ret'.cls)[n].readable =>
                        GetProp(heap', P, n) =
                          [err |-> "none",
                           val |-> ApplyFn(Schema(ret'.cls)[n].transform,
                                           ret'.data[n])] )
      ]_vars

\* ---------------------------------------------------------------- C3
\* C3: when a real entity E of type T is tracked with id K (and is the one
\* object of the map whose id compares equal to K), create(T, d2) with
\* d2.id = K returns E itself, registers nothing (the map and the number of
\* objects are unchanged), and E's raw and values are those computed from d2.
C3_IdempotentReRegistration ==
    [][ \A E \in Refs :
          ( /\ ret'.op = "create" /\ ret'.id \in DefinedIds
            /\ heap[E].kind = "entity" /\ heap[E].cls = ret'.cls
            /\ E \in TrackedFor(heap, objectMap, ret'.cls, ret'.id)
            /\ \A i \in 1..Len(objectMap[DollarName(ret'.cls)]) :
                  LooseEq(IdOf(heap, objectMap[DollarName(ret'.cls)][i]),
                          ret'.id)
                     => objectMap[DollarName(ret'.cls)][i] = E )
          => ( /\ ret'.result = E /\ ret'.err = "none"
               /\ objectMap' = objectMap
               /\ Len(heap') = Len(heap)
               /\ \A n \in DOMAIN Schema(ret'.cls) :
                     /\ heap'[E].raw[n] = ret'.data[n]
                     /\ heap'[E].values[n] =
                           ApplyFn(Schema(ret'.cls)[n].transform,
                                   ret'.data[n]) )
      ]_vars

\* a second create for a tracked real entity changed its loaded name
C3_Witness ==
    /\ ret.op = "create" /\ ret.err = "none" /\ ~ret.isNew
    /\ ret.id \in DefinedIds
    /\ heap[ret.result].kind = "entity" /\ heap[ret.result].cls = "User"
    /\ ret.cls = "User"
    /\ heap[ret.result].raw["name"] = "a"
    /\ heap[ret.result].values["name"] = ApplyFn(nameDef.transform, "a")
    /\ Len(heap) >= 2


\* ---------------------------------------------------------------- C4
\* C4: for a proxy whose delegate is unset, reading or writing any non-id
\* schema property (of the entity type the proxy stands for) fails with
\* 'Entity cannot be loaded' and leaves the proxy and the identity map
\* unchanged.
C4_UnresolvedAccessFails ==
    [][ ( /\ ret'.op \in {"read", "write"}
          /\ heap[ret'.ref].kind = "proxy" /\ heap[ret'.ref].object = NoRef
          /\ ret'.name \in (DOMAIN Schema(heap[ret'.ref].asked)) \ {"id"} )
        => ( /\ ret'.err = NotLoadable
             /\ heap' = heap /\ objectMap' = objectMap )
      ]_vars

\* ---------------------------------------------------------------- C5
\* C5: get(T, id) returns the tracked object for (T, id) when one exists and
\* fails with 'not loaded' when none exists; either way the identity map and
\* the objects are left as they were.
C5_GetContract ==
    [][ ( ret'.op = "get" /\ ret'.id \in DefinedIds )
        => LET T == TrackedFor(heap, objectMap, ret'.cls, ret'.id) IN
           /\ T # {} => (ret'.err = "none" /\ ret'.result \in T)
           /\ T = {} => (ret'.err = NotLoaded /\ ret'.result = NoRef)
           /\ heap' = heap /\ objectMap' = objectMap
      ]_vars

\* ---------------------------------------------------------------- C6
\* C6: getReference(T, id) never fails; if an object is tracked for (T, id) it
\* returns that object and changes nothing; otherwise it creates exactly one
\* unresolved proxy with that id, registers it and returns it, so that a get
\* or getReference for (T, id) right after returns the same object.
C6_GetReferenceContract ==
    [][ ( ret'.op = "getReference" /\ ret'.id \in DefinedIds )
        => LET T == TrackedFor(heap, objectMap, ret'.cls, ret'.id)
               new == Len(heap) + 1
           IN
           /\ ret'.err = "none"
           /\ T # {} => ( /\ ret'.result \in T
                          /\ heap' = heap /\ objectMap' = objectMap )
           /\ T = {} => ( /\ ret'.result = new
                          /\ heap' = Append(heap, heap'[new])
                          /\ heap'[new].kind = "proxy"
                          /\ heap'[new].object = NoRef
                          /\ heap'[new].id = ret'.id
                          /\ objectMap' = addToObjectMap(objectMap, ret'.cls, new)
                          /\ getFromObjectMap(heap', objectMap',
                                              ret'.cls, ret'.id) = new )
      ]_vars

\* ---------------------------------------------------------------- C7
\* C7: a proxy's delegate is set exactly once: a new proxy starts with the
\* delegate unset, and once it is bound no call ever rebinds it to another
\* object.
C7_DelegateSetOnce ==
    [][ /\ \A r \in Refs :
             (heap[r].kind = "proxy" /\ heap[r].object # NoRef)
                => heap'[r].object = heap[r].object
        /\ \A r \in (1..Len(heap')) \ Refs :
             heap'[r].kind = "proxy" => heap'[r].object = NoRef
      ]_vars

\* ---------------------------------------------------------------- C8
\* the real entity a property write on r lands on: r itself, or the delegate
\* of a resolved proxy
TargetOf(h, r) == IF h[r].kind = "entity" THEN r ELSE h[r].object

\* C8: writing v to a writable property of a tracked entity (directly or
\* through a resolved proxy) sets that entity's dirty flag, stores
\* transform(v) as the property's value, and a toArray taken right after
\* shows reverseTransform of that new value for the property (when it is
\* persistable).
C8_DirtyTracking ==
    [][ ( /\ ret'.op = "write"
          /\ TargetOf(heap, ret'.ref) # NoRef
          /\ ret'.name \in DOMAIN Schema(heap[TargetOf(heap, ret'.ref)].cls)
          /\ Schema(heap[TargetOf(heap, ret'.ref)].cls)[ret'.name].writable )
        => LET E == TargetOf(heap, ret'.ref)
               def == Schema(heap[E].cls)[ret'.name]
               new == ApplyFn(def.transform, ret'.val)
               arr == toArray(heap', ret'.ref)
           IN
           /\ ret'.err = "none"
           /\ heap'[E].dirty = TRUE
           /\ heap'[E].values[ret'.name] = new
           /\ def.persistable =>
                 /\ arr.err = "none"
                 /\ ret'.name \in DOMAIN arr.out
                 /\ arr.out[ret'.name] = ApplyFn(def.reverseTransform, new)
      ]_vars

\* ---------------------------------------------------------------- C9
\* the value a collaborator reads as entity[name] on real entity o
CurrentValue(o, n) ==
    IF Schema(o.cls)[n].readable THEN o.values[n] ELSE Undefined

RoundTrips(c) ==
    \A n \in DOMAIN Schema(c) : Schema(c)[n].persistable =>
        \A x \in Vals :
            ApplyFn(Schema(c)[n].reverseTransform,
                    ApplyFn(Schema(c)[n].transform, x)) = x

\* C10: when the transforms round-trip, toArray applied to the object
\* create(T, d) returns yields d[name] for every persistable property of T,
\* whatever the flags of the properties.
C10_RoundTrip ==
    ( ret.op = "create" /\ ret.err = "none" /\ RoundTrips(ret.cls) )
    => LET arr == toArray(heap, ret.result) IN
       /\ arr.err = "none"
       /\ \A n \in DOMAIN Schema(ret.cls) :
             Schema(ret.cls)[n].persistable =>
                (n \in DOMAIN arr.out /\ arr.out[n] = ret.data[n])


\* --------------------------------------------------------------- C11
\* C11: getProxyClass builds a proxy type on the first request for an entity
\* type and returns that same type on every later request (a cached type is
\* never rebuilt); there is one proxy type per entity type, so proxies
\* requested for two distinct entity types are never of the same proxy type.
C11_ProxyTypeCaching ==
    [][ /\ \A k \in MapKeys :
             proxyClasses[k] # NoClass => proxyClasses'[k] = proxyClasses[k]
        /\ \A r1, r2 \in 1..Len(heap') :
             ( /\ heap'[r1].kind = "proxy" /\ heap'[r2].kind = "proxy"
               /\ heap'[r1].asked # heap'[r2].asked )
             => heap'[r1].cls # heap'[r2].cls
      ]_vars


\* --------------------------------------------------------------- C12
\* C12: when a Property Definition of T's schema lacks a transform,
\* create(T, data) fails with 'transform is mandatory', returns no reference,
\* and leaves the identity map and every object (raw, values, dirty,
\* delegate) exactly as they were.
C12_NoPartialFailure ==
    [][ ( ret'.op = "create" /\ SchemaLacksTransform(ret'.cls) )
        => ( /\ ret'.err = "transform is mandatory"
             /\ ret'.result = NoRef
             /\ objectMap' = objectMap
             /\ heap' = heap )
      ]_vars

\* a failed create(User, ...) while a proxy for that id and another object
\* are tracked
C12_Witness ==
    /\ ret.op = "create" /\ ret.err = "transform is mandatory"
    /\ ret.cls = "User" /\ ret.id \in DefinedIds
    /\ \E r \in Refs : /\ heap[r].kind = "proxy" /\ heap[r].asked = "User"
                       /\ heap[r].id = ret.id /\ heap[r].object = NoRef
    /\ Len(objectMap[DollarName("User")]) >= 2


\* --------------------------------------------------------------- C13
\* C13: the id of an object never changes after the object is created: not
\* for a real Entity Instance under a later create, update or property write,
\* not for a proxy before or after its resolution.
C13_IdImmutable ==
    [][ \A r \in Refs : IdOf(heap', r) = IdOf(heap, r) ]_vars

\* --------------------------------------------------------------- C14
\* C14: once get(T, K) or getReference(T, K) returns object X, every later
\* get(T, K) and getReference(T, K) returns X, whatever create, getReference,
\* get, getAll and toArray calls are made in between (what both calls return
\* for a tracked K is the result of the map lookup).
C14_TrackedNeverReplaced ==
    [][ \A c \in Classes : \A K \in DefinedIds :
          getFromObjectMap(heap, objectMap, c, K) # NoRef
             => getFromObjectMap(heap', objectMap', c, K)
                  = getFromObjectMap(heap, objectMap, c, K)
      ]_vars


\* --------------------------------------------------------------- C15
\* C15: a create call for an untracked id registers the new Entity Instance
\* and invokes the entity type's hook on it; a create call that resolves a
\* proxy invokes the hook on the proxy; a create call that updates an
\* existing real entity invokes no hook.
C15_HookInvocation ==
    ( ret.op = "create" /\ ret.err = "none" )
    => /\ ret.isNew =>
            ( /\ InSeq(ret.result, objectMap[DollarName(ret.cls)])
              /\ ret.hookOn = ret.result )
       /\ (~ret.isNew /\ heap[ret.result].kind = "proxy") =>
            ret.hookOn = ret.result
       /\ (~ret.isNew /\ heap[ret.result].kind = "entity") =>
            ret.hookOn = NoRef


\* --------------------------------------------------------------- C16
\* C16: the identity map is per entity type: a create or getReference call on
\* T1 never changes what getAll, get or getReference return for another
\* entity type T2 (and so get(T2, K) fails with 'not loaded' when only T1
\* tracks an object with id K).
C16_MapPerEntityType ==
    [][ ret'.op \in {"create", "getReference"}
        => \A T2 \in Classes \ {ret'.cls} :
             /\ objectMap'[DollarName(T2)] = objectMap[DollarName(T2)]
             /\ \A K \in DefinedIds :
                   getFromObjectMap(heap', objectMap', T2, K)
                      = getFromObjectMap(heap, objectMap, T2, K)
      ]_vars

\* --------------------------------------------------------------- C17
\* C17: update(E, data) on a real entity E sets, for every property name of
\* E's schema (names absent from data included), raw[name] to data[name] and
\* values[name] to transform(data[name]); it leaves E's dirty flag, every
\* other object and the identity map unchanged.
C17_UpdateContract ==
    [][ ( ret'.op = "update" /\ heap[ret'.ref].kind = "entity" )
        => LET E == ret'.ref
               schema == Schema(heap[E].cls)
           IN
           /\ ret'.err = "none"
           /\ \A n \in DOMAIN schema :
                 /\ heap'[E].raw[n] = ret'.data[n]
                 /\ heap'[E].values[n] = ApplyFn(schema[n].transform,
                                                 ret'.data[n])
           /\ heap'[E].dirty = heap[E].dirty
           /\ \A r \in Refs \ {E} : heap'[r] = heap[r]
           /\ Len(heap') = Len(heap)
           /\ objectMap' = objectMap
      ]_vars

\* update of a dirty entity changed a loaded value and kept the flag
C17_Witness ==
    /\ ret.op = "update" /\ ret.err = "none"
    /\ heap[ret.ref].kind = "entity" /\ heap[ret.ref].cls = "User"
    /\ heap[ret.ref].dirty
    /\ ret.data["name"] = Undefined
    /\ heap[ret.ref].values["name"] = "a"

\* --------------------------------------------------------------- C18
\* C18: create(T, data) for an id whose tracked object is an already resolved
\* proxy P is equivalent to update(delegate, data) on P's delegate: P keeps
\* its delegate, which afterwards has the raw, values and dirty state update
\* produces on it (a dirty flag set by an earlier write is preserved).
C18_CreateOnResolvedProxy ==
    [][ \A P \in Refs :
          ( /\ ret'.op = "create" /\ ret'.err = "none" /\ ret'.result = P
            /\ heap[P].kind = "proxy" /\ heap[P].asked = ret'.cls
            /\ heap[P].object # NoRef )
          => /\ heap'[P].object = heap[P].object
             /\ heap'[heap[P].object] = update(heap[heap[P].object], ret'.data)
      ]_vars

\* --------------------------------------------------------------- C19
\* values agree with the transformed raw snapshot on every schema property
InSync(o) ==
    \A n \in DOMAIN Schema(o.cls) :
        o.values[n] = ApplyFn(Schema(o.cls)[n].transform, o.raw[n])

\* C19: every Entity Instance whose dirty flag is false has
\* values[name] = transform(raw[name]) for every schema property; a property
\* write never changes raw.
C19_DirtyMarksDivergence ==
    [][ /\ \A r \in 1..Len(heap') :
             (heap'[r].kind = "entity" /\ ~heap'[r].dirty) => InSync(heap'[r])
        /\ ret'.op = "write" =>
             \A r \in Refs : heap'[r].raw = heap[r].raw
      ]_vars

\* a write made an entity's value differ from its transformed raw snapshot
C19_Witness ==
    /\ ret.op = "write" /\ ret.err = "none"
    /\ \E r \in Refs : /\ heap[r].kind = "entity" /\ heap[r].dirty
                       /\ ~InSync(heap[r])

\* --------------------------------------------------------------- C20
\* C20: once a proxy's delegate is set it is never unset and always refers to
\* a real Entity Instance, so that no later non-id property access on the
\* proxy fails with 'Entity cannot be loaded'.
C20_ResolutionIrreversible ==
    [][ \A P \in Refs :
          (heap[P].kind = "proxy" /\ heap[P].object # NoRef)
          => /\ heap'[P].object # NoRef
             /\ heap'[heap'[P].object].kind = "entity"
             /\ \A n \in PropNames \ {"id"} :
                   /\ GetProp(heap', P, n).err # NotLoadable
                   /\ \A v \in PropVals :
                         SetProp(heap', P, n, v).err # NotLoadable
      ]_vars

\* a property read through a proxy after a second create rebound its delegate
C20_Witness ==
    /\ ret.op = "read" /\ ret.err = "none" /\ ret.name = "name"
    /\ heap[ret.ref].kind = "proxy" /\ heap[ret.ref].cls = "User"
    /\ heap[ret.ref].object = 3

====
